---- MODULE Spec2Model ----
(***************************************************************************)
(* Model of src/sreality_scraper.py: SrealityScraper.run_continuous and    *)
(* the check cycle check_and_notify it drives (load, paginated fetch,      *)
(* empty guard, classification and history append, the four report         *)
(* renderers, the two saves, the upload), with the files the cycle reads   *)
(* and writes.                                                             *)
(*                                                                         *)
(* A Python dict is modelled as the sequence of its [k, v] pairs in        *)
(* insertion order.  A property record keeps the fields the cycle reads    *)
(* (id, price, last_updated) and one descriptive field (name) standing for *)
(* the descriptive fields the cycle only copies (locality, url, area,      *)
(* image_url, description).  A JSON file is the sequence of tokens         *)
(* json.dump writes; a write that fails part-way leaves a prefix of it.    *)
(* The alerts page is the sequence of the parts written to it, cut the     *)
(* same way by a write that fails.                                         *)
(***************************************************************************)
EXTENDS Integers, Sequences, FiniteSets, TLC

\* ------------------------------------------------------------------ bounds
\* Number of check cycles run_continuous is followed for.
MaxCycles == 3
\* Page size of the paginated fetch (params['per_page'], 60 in the source,
\* scaled down with the listing sizes).
PerPage == 2

\* The items the remote source can serve: listing 101 at two prices and, at
\* the lower price, with two values of the descriptive field; listing 102.
Items ==
    {[hash_id |-> 101, name |-> "n1", price |-> 1],
     [hash_id |-> 101, name |-> "n1", price |-> 2],
     [hash_id |-> 101, name |-> "n2", price |-> 1],
     [hash_id |-> 102, name |-> "n1", price |-> 2]}

HashIds == {item.hash_id : item \in Items}

\* The readings datetime.now() can give.  It is the local wall clock: a later
\* call can read less than, the same as or more than an earlier one.
Stamps == {1, 2}

Range(s) == {s[i] : i \in 1..Len(s)}

\* ------------------------------------------------------------- python dict
DictHas(d, key) == \E i \in 1..Len(d) : d[i].k = key

DictIndex(d, key) == CHOOSE i \in 1..Len(d) : d[i].k = key

DictGet(d, key) == d[DictIndex(d, key)].v

DictSet(d, key, val) ==
    IF DictHas(d, key)
    THEN [d EXCEPT ![DictIndex(d, key)] = [k |-> key, v |-> val]]
    ELSE Append(d, [k |-> key, v |-> val])

DictKeys(d) == {d[i].k : i \in 1..Len(d)}

\* ------------------------------------------------------------------- files
NoFile == [exists |-> FALSE, text |-> <<>>]

\* json.dump(obj, f): the opening brace, one member per key in dict order,
\* the closing brace.
json_dump(d) ==
    <<[t |-> "{"]>>
      \o [i \in 1..Len(d) |-> [t |-> "member", k |-> d[i].k, v |-> d[i].v]]
      \o <<[t |-> "}"]>>

\* Whether json.load accepts the text (otherwise it raises JSONDecodeError).
json_valid(text) ==
    /\ Len(text) >= 2
    /\ text[1].t = "{"
    /\ text[Len(text)].t = "}"
    /\ \A i \in 2..(Len(text) - 1) : text[i].t = "member"

json_load(text) ==
    [i \in 1..(Len(text) - 2) |-> [k |-> text[i + 1].k, v |-> text[i + 1].v]]

\* What run_continuous prints for the exceptions a load lets through.
JSONDecodeError == "Error in main loop: JSONDecodeError"

FileNotFoundError == "Error in main loop: FileNotFoundError"

OSError == "Error in main loop: OSError"

\* Variant: FileNotFoundError is not caught, an absent file makes the load
\* raise.
load_file_unguarded(file, fault) ==
    IF fault THEN [ok |-> FALSE, val |-> <<>>, err |-> OSError]
    ELSE IF ~file.exists THEN [ok |-> FALSE, val |-> <<>>, err |-> FileNotFoundError]
    ELSE IF json_valid(file.text) THEN [ok |-> TRUE, val |-> json_load(file.text), err |-> ""]
    ELSE [ok |-> FALSE, val |-> <<>>, err |-> JSONDecodeError]

\* try: with open(path, 'r') as f: return json.load(f), except
\* FileNotFoundError: return {}.  fault: open() or the read raises an OSError
\* other than FileNotFoundError (no descriptor left, permission denied, I/O
\* error), whether the file is there or not; nothing catches it.  Otherwise
\* an absent file gives {}, a file json.load rejects raises JSONDecodeError.
load_file(file, fault) ==
    IF fault THEN [ok |-> FALSE, val |-> <<>>, err |-> OSError]
    ELSE IF ~file.exists THEN [ok |-> TRUE, val |-> <<>>, err |-> ""]
    ELSE IF json_valid(file.text) THEN [ok |-> TRUE, val |-> json_load(file.text), err |-> ""]
    ELSE [ok |-> FALSE, val |-> <<>>, err |-> JSONDecodeError]

load_previous_data(file, fault) == load_file(file, fault)

load_history(file, fault) == load_file(file, fault)

\* with open(path, 'w') as f: json.dump(obj, f), stopped after `done` steps:
\* 0 = open() itself raised (file untouched), 1 = opened and truncated,
\* 1 + n = n tokens written, 1 + Len(text) = complete.
write_file(file, text, done) ==
    IF done = 0 THEN file
    ELSE [exists |-> TRUE, text |-> SubSeq(text, 1, done - 1)]

\* Variant: the stored mapping is updated with the fetched one, the records
\* of ids the fetch does not hold stay.
save_data_update(file, data) ==
    LET kept == SelectSeq(load_file(file, FALSE).val, LAMBDA e : ~DictHas(data, e.k))
    IN  write_file(file, json_dump(data \o kept), 1 + Len(json_dump(data \o kept)))

save_data(file, data) == write_file(file, json_dump(data), 1 + Len(json_dump(data)))

save_history(file, hist) == write_file(file, json_dump(hist), 1 + Len(json_dump(hist)))

\* ------------------------------------------------------------------- fetch
\* What the remote source lists: items with distinct hash_ids, served in the
\* order of their hash_ids.
Listings ==
    {s \in UNION {[1..n -> Items] : n \in 0..Cardinality(HashIds)} :
        \A i, j \in 1..Len(s) : i < j => s[i].hash_id < s[j].hash_id}

Min(a, b) == IF a <= b THEN a ELSE b

\* The estates of one page of the listing.
PageOf(listing, page) ==
    SubSeq(listing, (page - 1) * PerPage + 1, Min(page * PerPage, Len(listing)))

\* Number of page requests a fetch of the listing makes when none fails.
Requests(listing) == (Len(listing) \div PerPage) + 1

RECURSIVE ProcessEstates(_, _, _, _, _)
\* for item in estates: all_properties[str(item['hash_id'])] = {...};
\* clock[i] is what datetime.now() reads when item i is stored.  Item `bad`
\* of the page (0: none) lacks 'hash_id' or 'seo': item['hash_id'] or
\* item['seo']['locality'] raises KeyError before the item is stored, the
\* items before it stay stored.
ProcessEstates(estates, i, all, clock, bad) ==
    IF i > Len(estates) THEN [all |-> all, raised |-> FALSE]
    ELSE IF i = bad THEN [all |-> all, raised |-> TRUE]
    ELSE ProcessEstates(estates, i + 1,
            DictSet(all, ToString(estates[i].hash_id),
                    [id |-> ToString(estates[i].hash_id),
                     name |-> estates[i].name,
                     price |-> estates[i].price,
                     last_updated |-> clock[i]]),
            clock, bad)

\* The position in its page of item badItem of the listing (0: not in the page).
BadInPage(badItem, page) ==
    IF (page - 1) * PerPage < badItem /\ badItem <= page * PerPage
    THEN badItem - (page - 1) * PerPage
    ELSE 0

RECURSIVE FetchLoop(_, _, _, _, _, _)
\* The while True loop of fetch_properties.  Its try covers the request and
\* the item loop: the request of page failPage raises (0: none does), item
\* badItem of the listing raises (0: none does), and the loop's except turns
\* either into a break, with what was stored so far.  clock holds the reading
\* of datetime.now() for each item of the listing.  The result is
\* all_properties and the page whose error was printed (0: none).
FetchLoop(listing, page, failPage, badItem, all, clock) ==
    IF page = failPage THEN [data |-> all, error |-> page]
    ELSE LET estates == PageOf(listing, page)
             r == ProcessEstates(estates, 1, all, PageOf(clock, page),
                                 BadInPage(badItem, page))
         IN  IF estates = <<>> THEN [data |-> all, error |-> 0]
             ELSE IF r.raised THEN [data |-> r.all, error |-> page]
             ELSE IF Len(estates) < PerPage THEN [data |-> r.all, error |-> 0]
             ELSE FetchLoop(listing, page + 1, failPage, badItem, r.all, clock)

fetch_properties(listing, failPage, badItem, clock) ==
    FetchLoop(listing, 1, failPage, badItem, <<>>, clock)

\* ---------------------------------------------------------------- classify
\* Variant: the guard is missing.
EmptyGuardMissing(current) == FALSE

\* if not current_data: print("No data fetched"); return
EmptyGuard(current) == current = <<>>

\* if prop_id not in previous_data
IsNewProperty(previous, prop_id) == ~DictHas(previous, prop_id)

\* Variant: the descriptive field is compared as well as the price.
PriceOrNameDiffers(previous, prop_id, prop) ==
    \/ DictGet(previous, prop_id).price # prop.price
    \/ DictGet(previous, prop_id).name # prop.name

\* elif previous_data[prop_id]['price'] != prop['price']
PriceDiffers(previous, prop_id, prop) ==
    DictGet(previous, prop_id).price # prop.price

\* Variant: the difference taken the other way round.
PriceChangeEntrySwapped(prop, old_price) ==
    [id |-> prop.id, name |-> prop.name, price |-> prop.price,
     last_updated |-> prop.last_updated,
     old_price |-> old_price, price_diff |-> old_price - prop.price]

\* {**prop, 'old_price': old_price, 'price_diff': prop['price'] - old_price}
PriceChangeEntry(prop, old_price) ==
    [id |-> prop.id, name |-> prop.name, price |-> prop.price,
     last_updated |-> prop.last_updated,
     old_price |-> old_price, price_diff |-> prop.price - old_price]

\* Variant: the list is reset on every check, not only when the id is absent.
AppendSnapshotReset(hist, prop_id, prop) == DictSet(hist, prop_id, <<prop>>)

\* if prop_id not in history: history[prop_id] = []
\* history[prop_id].append(prop.copy())
AppendSnapshot(hist, prop_id, prop) ==
    LET h1 == IF ~DictHas(hist, prop_id) THEN DictSet(hist, prop_id, <<>>) ELSE hist
    IN  DictSet(h1, prop_id, Append(DictGet(h1, prop_id), prop))

RECURSIVE ClassifyLoopByHistory(_, _, _, _)
\* Variant: an id counts as known when the history has it, and its old price
\* is then the price of its last history record.
ClassifyLoopByHistory(current, i, previous, acc) ==
    IF i > Len(current) THEN acc
    ELSE LET prop_id == current[i].k
             prop == current[i].v
             known == DictHas(previous, prop_id) \/ DictHas(acc.history, prop_id)
             old_price ==
                 IF DictHas(previous, prop_id) THEN DictGet(previous, prop_id).price
                 ELSE DictGet(acc.history, prop_id)[Len(DictGet(acc.history, prop_id))].price
         IN  ClassifyLoopByHistory(current, i + 1, previous,
                [history |-> AppendSnapshot(acc.history, prop_id, prop),
                 new_properties |->
                    IF ~known THEN Append(acc.new_properties, prop)
                    ELSE acc.new_properties,
                 price_changes |->
                    IF known /\ old_price # prop.price
                    THEN Append(acc.price_changes, PriceChangeEntry(prop, old_price))
                    ELSE acc.price_changes])

RECURSIVE ClassifyLoop(_, _, _, _)
\* for prop_id, prop in current_data.items(): ...
ClassifyLoop(current, i, previous, acc) ==
    IF i > Len(current) THEN acc
    ELSE LET prop_id == current[i].k
             prop == current[i].v
         IN  ClassifyLoop(current, i + 1, previous,
                [history |-> AppendSnapshot(acc.history, prop_id, prop),
                 new_properties |->
                    IF IsNewProperty(previous, prop_id)
                    THEN Append(acc.new_properties, prop)
                    ELSE acc.new_properties,
                 price_changes |->
                    IF ~IsNewProperty(previous, prop_id)
                       /\ PriceDiffers(previous, prop_id, prop)
                    THEN Append(acc.price_changes,
                                PriceChangeEntry(prop, DictGet(previous, prop_id).price))
                    ELSE acc.price_changes])

\* Variant: a previous record is also reported when its price has changed.
RemovedLoopOrRepriced(previous, i, current) ==
    LET gone == SelectSeq(previous,
                    LAMBDA e : \/ ~DictHas(current, e.k)
                               \/ DictGet(current, e.k).price # e.v.price)
    IN  [j \in 1..Len(gone) |-> gone[j].v]

\* Variant: the membership test is missing, every previous record is reported.
RemovedLoopUnfiltered(previous, i, current) ==
    [j \in 1..Len(previous) |-> previous[j].v]

RECURSIVE RemovedLoop(_, _, _)
\* for prop_id, prop in previous_data.items():
\*     if prop_id not in current_data: removed_properties.append(prop)
RemovedLoop(previous, i, current) ==
    IF i > Len(previous) THEN <<>>
    ELSE IF ~DictHas(current, previous[i].k)
         THEN <<previous[i].v>> \o RemovedLoop(previous, i + 1, current)
         ELSE RemovedLoop(previous, i + 1, current)

\* ----------------------------------------------------------------- reports
NoReport == [exists |-> FALSE, text |-> <<>>]

\* The parts of the alerts page: the page header, the heading of a check
\* section, one entry per new property and per price change, and the closing
\* tags.
Header == [t |-> "header"]

Check == [t |-> "check"]

NewEntry(prop) == [t |-> "new", id |-> prop.id, price |-> prop.price]

ChangeEntry(change) ==
    [t |-> "change", id |-> change.id, price |-> change.price,
     old_price |-> change.old_price]

Close == [t |-> "close"]

\* The html save_alerts_to_file builds: the page header when the file does
\* not exist, else the file's content (html.replace('</body></html>', '')
\* finds nothing to remove: the closing tags are written on separate lines),
\* then the new check section and the closing tags.
alerts_html(file, new, changes) ==
    (IF file.exists THEN file.text ELSE <<Header>>)
      \o <<Check>>
      \o [i \in 1..Len(new) |-> NewEntry(new[i])]
      \o [i \in 1..Len(changes) |-> ChangeEntry(changes[i])]
      \o <<Close>>

\* with open(report, 'w') as f: f.write(html), then the status line, stopped
\* after `done` steps: 0 = before open(), 1 = opened and truncated,
\* 1 + n = n parts written, 2 + Len(html) = written, the print after it raised.
write_report(file, html, done) ==
    IF done = 0 THEN file
    ELSE [exists |-> TRUE, text |-> SubSeq(html, 1, Min(done - 1, Len(html)))]

save_alerts_to_file(file, new, changes) ==
    write_report(file, alerts_html(file, new, changes),
                 2 + Len(alerts_html(file, new, changes)))

\* What a cycle has done to a report file: written it, or left it cut.
Written(report) == [report |-> report, complete |-> TRUE]

Truncated(report) == [report |-> report, complete |-> FALSE]

\* ------------------------------------------------------------------- state
VARIABLES
    pc,                 \* where run_continuous / check_and_notify stands
    cycle,              \* check cycles started so far
    dataFile,           \* sreality_data.json
    historyFile,        \* sreality_history.json
    alertsFile,         \* sreality_alerts.html
    rendered,           \* what the running cycle has done to the report files
    previous_data,      \* locals of check_and_notify
    history,
    current_data,
    new_properties,
    price_changes,
    removed_properties,
    printed,            \* the last one printed of the status lines of
                        \* fetch_properties, check_and_notify and the handlers
                        \* of run_continuous
    fetch_error,        \* the page whose error the running fetch printed (0: none)
    atStart,            \* the files as the running cycle found them
    lastGood,           \* the two data files as the last completed cycle left them
    removedEarlier,     \* ids a completed cycle classified as removed, not fetched since
    inEveryFetch        \* ids every fetch so far has held

vars == <<pc, cycle, dataFile, historyFile, alertsFile, rendered, previous_data,
          history, current_data, new_properties, price_changes,
          removed_properties, printed, fetch_error, atStart, lastGood,
          removedEarlier, inEveryFetch>>

files == <<dataFile, historyFile, alertsFile>>

locals == <<previous_data, history, current_data, new_properties, price_changes,
            removed_properties>>

Files == [data |-> dataFile, history |-> historyFile, alerts |-> alertsFile]

RenderPcs == {"alerts", "removed", "catalog", "history_html"}

\* The locals of check_and_notify are gone once it returns or raises; the ids
\* its fetch held have been seen again.
DropLocals ==
    /\ removedEarlier' = removedEarlier \ DictKeys(current_data)
    /\ fetch_error' = 0
    /\ previous_data' = <<>>
    /\ history' = <<>>
    /\ current_data' = <<>>
    /\ new_properties' = <<>>
    /\ price_changes' = <<>>
    /\ removed_properties' = <<>>

\* An exception leaves check_and_notify and reaches run_continuous:
\* "except Exception" prints and goes to the cooldown sleep.
Raise(e) ==
    /\ pc' = "cooldown"
    /\ printed' = e
    /\ DropLocals

RenderError == "Error in main loop: report not rendered"

WriteError == "Error in main loop: write failed"

UploadError == "Error in main loop: upload failed"

\* KeyboardInterrupt inside the try block: "except KeyboardInterrupt" prints
\* and breaks out of the loop.
Stop ==
    /\ pc' = "stopped"
    /\ printed' = "Stopping scraper..."
    /\ DropLocals

Init ==
    /\ pc = "start"
    /\ cycle = 0
    /\ dataFile = NoFile
    /\ historyFile = NoFile
    /\ alertsFile = NoReport
    /\ rendered = {}
    /\ previous_data = <<>>
    /\ history = <<>>
    /\ current_data = <<>>
    /\ new_properties = <<>>
    /\ price_changes = <<>>
    /\ removed_properties = <<>>
    /\ printed = ""
    /\ fetch_error = 0
    /\ atStart = [data |-> NoFile, history |-> NoFile, alerts |-> NoReport]
    /\ lastGood = [data |-> NoFile, history |-> NoFile]
    /\ removedEarlier = {}
    /\ inEveryFetch = {ToString(h) : h \in HashIds}

\* ----------------------------------------------------------------- actions
\* run_continuous calls check_and_notify, which loads the snapshot.  The
\* load returns, raises (json.load rejects the file, or open() fails for a
\* reason other than absence), or is interrupted.
LoadPreviousData ==
    /\ pc = "start"
    /\ cycle < MaxCycles
    /\ cycle' = cycle + 1
    /\ atStart' = Files
    /\ rendered' = {}
    /\ \E fault, interrupted \in BOOLEAN :
          IF interrupted THEN Stop
          ELSE IF load_previous_data(dataFile, fault).ok
          THEN /\ previous_data' = load_previous_data(dataFile, fault).val
               /\ pc' = "load_history"
               /\ printed' = "Checking properties"
               /\ UNCHANGED <<history, current_data, new_properties, price_changes,
                              removed_properties, fetch_error, removedEarlier>>
          ELSE Raise(load_previous_data(dataFile, fault).err)
    /\ UNCHANGED <<files, lastGood, inEveryFetch>>

\* check_and_notify loads the history, with the same outcomes.
LoadHistory ==
    /\ pc = "load_history"
    /\ \E fault, interrupted \in BOOLEAN :
          IF interrupted THEN Stop
          ELSE IF load_history(historyFile, fault).ok
          THEN /\ history' = load_history(historyFile, fault).val
               /\ pc' = "fetch"
               /\ UNCHANGED <<previous_data, current_data, new_properties, price_changes,
                              removed_properties, printed, fetch_error, removedEarlier>>
          ELSE Raise(load_history(historyFile, fault).err)
    /\ UNCHANGED <<cycle, files, rendered, atStart, lastGood, inEveryFetch>>

\* fetch_properties against what the remote source lists now; failPage is
\* the page whose request raises (0: none), badItem the item of the listing
\* that lacks a field (0: none), clock the readings of datetime.now().  The total line is printed after the loop on every path.
FetchProperties ==
    /\ pc = "fetch"
    /\ \E listing \in Listings :
          \E failPage \in 0..Requests(listing), badItem \in 0..Len(listing),
             clock \in [1..Len(listing) -> Stamps] :
             /\ current_data' = fetch_properties(listing, failPage, badItem, clock).data
             /\ fetch_error' = fetch_properties(listing, failPage, badItem, clock).error
    /\ printed' = "Total properties fetched"
    /\ inEveryFetch' = inEveryFetch \cap DictKeys(current_data')
    /\ pc' = "classify"
    /\ UNCHANGED <<cycle, files, rendered, previous_data, history, new_properties,
                   price_changes, removed_properties, atStart, lastGood,
                   removedEarlier>>

\* KeyboardInterrupt while fetch_properties waits for a request or sleeps
\* between two pages: the page loop's "except Exception" does not catch it.
InterruptInFetch ==
    /\ pc = "fetch"
    /\ Stop
    /\ UNCHANGED <<cycle, files, rendered, atStart, lastGood, inEveryFetch>>

\* The empty guard, then the two classification loops.
Classify ==
    /\ pc = "classify"
    /\ IF EmptyGuard(current_data)
       THEN /\ printed' = "No data fetched"
            /\ pc' = "sleep"
            /\ DropLocals
       ELSE LET r == ClassifyLoop(current_data, 1, previous_data,
                        [history |-> history, new_properties |-> <<>>,
                         price_changes |-> <<>>])
            IN  /\ history' = r.history
                /\ new_properties' = r.new_properties
                /\ price_changes' = r.price_changes
                /\ removed_properties' = RemovedLoop(previous_data, 1, current_data)
                /\ pc' = "alerts"
                /\ UNCHANGED <<previous_data, current_data, printed, fetch_error,
                               removedEarlier>>
    /\ UNCHANGED <<cycle, files, rendered, atStart, lastGood, inEveryFetch>>

\* if new_properties or price_changes: self.save_alerts_to_file(...)
SaveAlertsToFile ==
    /\ pc = "alerts"
    /\ IF new_properties # <<>> \/ price_changes # <<>>
       THEN /\ alertsFile' = save_alerts_to_file(alertsFile, new_properties, price_changes)
            /\ rendered' = rendered \cup {Written("alerts")}
       ELSE UNCHANGED <<alertsFile, rendered>>
    /\ pc' = "removed"
    /\ UNCHANGED <<cycle, dataFile, historyFile, locals, printed, fetch_error, atStart,
                   lastGood, removedEarlier, inEveryFetch>>

\* if removed_properties: self.save_removed_properties(...)
SaveRemovedProperties ==
    /\ pc = "removed"
    /\ rendered' = IF removed_properties # <<>> THEN rendered \cup {Written("removed")}
                   ELSE rendered
    /\ pc' = "catalog"
    /\ UNCHANGED <<cycle, files, locals, printed, fetch_error, atStart, lastGood,
                   removedEarlier, inEveryFetch>>

SaveCompleteCatalog ==
    /\ pc = "catalog"
    /\ rendered' = rendered \cup {Written("catalog")}
    /\ pc' = "history_html"
    /\ UNCHANGED <<cycle, files, locals, printed, fetch_error, atStart, lastGood,
                   removedEarlier, inEveryFetch>>

SavePropertyHistoryHtml ==
    /\ pc = "history_html"
    /\ rendered' = rendered \cup {Written("history_html")}
    /\ pc' = "save_data"
    /\ UNCHANGED <<cycle, files, locals, printed, fetch_error, atStart, lastGood,
                   removedEarlier, inEveryFetch>>

\* A renderer that is called does not return: an exception, or a
\* KeyboardInterrupt (it waits in download_image for every image it has not
\* stored yet), reaches run_continuous after `done` steps of the write.
RenderFailure ==
    /\ pc \in RenderPcs
    /\ pc = "alerts" => (new_properties # <<>> \/ price_changes # <<>>)
    /\ pc = "removed" => removed_properties # <<>>
    /\ LET html == IF pc = "alerts"
                   THEN alerts_html(alertsFile, new_properties, price_changes)
                   ELSE <<>>
       IN  \E done \in 0..(2 + Len(html)), interrupted \in BOOLEAN :
              /\ alertsFile' = IF pc = "alerts" THEN write_report(alertsFile, html, done)
                               ELSE alertsFile
              /\ rendered' = IF done = 0 THEN rendered
                             ELSE IF done < 2 + Len(html)
                                  THEN rendered \cup {Truncated(pc)}
                                  ELSE rendered \cup {Written(pc)}
              /\ IF interrupted THEN Stop ELSE Raise(RenderError)
    /\ UNCHANGED <<cycle, dataFile, historyFile, atStart, lastGood, inEveryFetch>>

SaveData ==
    /\ pc = "save_data"
    /\ dataFile' = save_data(dataFile, current_data)
    /\ pc' = "save_history"
    /\ UNCHANGED <<cycle, historyFile, alertsFile, rendered, locals, printed,
                   fetch_error, atStart, lastGood, removedEarlier, inEveryFetch>>

\* The write of the snapshot raises (OSError, or KeyboardInterrupt when
\* interrupted) after `done` steps.
SaveDataFailure ==
    /\ pc = "save_data"
    /\ \E done \in 0..Len(json_dump(current_data)), interrupted \in BOOLEAN :
          /\ dataFile' = write_file(dataFile, json_dump(current_data), done)
          /\ IF interrupted THEN Stop ELSE Raise(WriteError)
    /\ UNCHANGED <<cycle, historyFile, alertsFile, rendered, atStart, lastGood,
                   inEveryFetch>>

SaveHistory ==
    /\ pc = "save_history"
    /\ historyFile' = save_history(historyFile, history)
    /\ lastGood' = [data |-> dataFile, history |-> historyFile']
    /\ removedEarlier' = removedEarlier \cup {r.id : r \in Range(removed_properties)}
    /\ pc' = "upload"
    /\ UNCHANGED <<cycle, dataFile, alertsFile, rendered, locals, printed, fetch_error,
                   atStart, inEveryFetch>>

SaveHistoryFailure ==
    /\ pc = "save_history"
    /\ \E done \in 0..Len(json_dump(history)), interrupted \in BOOLEAN :
          /\ historyFile' = write_file(historyFile, json_dump(history), done)
          /\ IF interrupted THEN Stop ELSE Raise(WriteError)
    /\ UNCHANGED <<cycle, dataFile, alertsFile, rendered, atStart, lastGood,
                   inEveryFetch>>

\* upload_to_github returns (at once when the upload is disabled, else with
\* the git errors it contains); check_and_notify prints its summary and
\* returns, and run_continuous goes to the interval sleep.
UploadToGithub ==
    /\ pc = "upload"
    /\ printed' = "Found"
    /\ pc' = "sleep"
    /\ DropLocals
    /\ UNCHANGED <<cycle, files, rendered, atStart, lastGood, inEveryFetch>>

\* upload_to_github does not return: an exception raised in its try block is
\* followed by one raised in its handler (its print, or os.chdir(original_dir)
\* with original_dir not bound yet), or a KeyboardInterrupt arrives while it
\* waits for git.  Both files have been saved, the summary is not printed.
UploadFailure ==
    /\ pc = "upload"
    /\ \E interrupted \in BOOLEAN :
          IF interrupted THEN Stop ELSE Raise(UploadError)
    /\ UNCHANGED <<cycle, files, rendered, atStart, lastGood, inEveryFetch>>

\* time.sleep(interval_hours * 3600) returns: the next iteration.
IntervalSleep ==
    /\ pc = "sleep"
    /\ cycle < MaxCycles
    /\ pc' = "start"
    /\ UNCHANGED <<cycle, files, rendered, locals, printed, fetch_error, atStart,
                   lastGood, removedEarlier, inEveryFetch>>

\* time.sleep(300) in the except Exception handler returns: the next iteration.
CooldownSleep ==
    /\ pc = "cooldown"
    /\ cycle < MaxCycles
    /\ pc' = "start"
    /\ UNCHANGED <<cycle, files, rendered, locals, printed, fetch_error, atStart,
                   lastGood, removedEarlier, inEveryFetch>>

\* KeyboardInterrupt during time.sleep(interval_hours * 3600), inside the
\* try block.
InterruptInSleep ==
    /\ pc = "sleep"
    /\ Stop
    /\ UNCHANGED <<cycle, files, rendered, atStart, lastGood, inEveryFetch>>

\* KeyboardInterrupt during time.sleep(300): raised inside the except
\* Exception handler, where no except clause of the try statement applies,
\* so it leaves run_continuous as an uncaught exception.
InterruptInCooldown ==
    /\ pc = "cooldown"
    /\ pc' = "crashed"
    /\ UNCHANGED <<cycle, files, rendered, locals, printed, fetch_error, atStart,
                   lastGood, removedEarlier, inEveryFetch>>

Next ==
    \/ LoadPreviousData
    \/ LoadHistory
    \/ FetchProperties
    \/ InterruptInFetch
    \/ Classify
    \/ SaveAlertsToFile
    \/ SaveRemovedProperties
    \/ SaveCompleteCatalog
    \/ SavePropertyHistoryHtml
    \/ RenderFailure
    \/ SaveData
    \/ SaveDataFailure
    \/ SaveHistory
    \/ SaveHistoryFailure
    \/ UploadToGithub
    \/ UploadFailure
    \/ IntervalSleep
    \/ CooldownSleep
    \/ InterruptInSleep
    \/ InterruptInCooldown

Spec == Init /\ [][Next]_vars

\* ------------------------------------------------------------------ claims
\* The cycle in flight has passed the empty guard and the classification.
Classified == pc \in RenderPcs \cup {"save_data", "save_history", "upload"}

\* The previous snapshot P and the history as the cycle in flight found them
\* on disk.
PersistedPrevious == load_previous_data(atStart.data, FALSE).val

PersistedHistoryAtStart == load_history(atStart.history, FALSE).val

HistoryOf(hist, id) == IF DictHas(hist, id) THEN DictGet(hist, id) ELSE <<>>

\* C1: after the classification of a cycle with non-empty fetch C, the new
\* list holds exactly the current records of the ids of keys(C) \ keys(P), and
\* the removed list exactly the records stored in the persisted snapshot P
\* (last_updated included) of the ids of keys(P) \ keys(C), each once.
C1_NewAndRemovedExact ==
    Classified =>
        LET P == PersistedPrevious
            C == current_data
            newIds == DictKeys(C) \ DictKeys(P)
            removedIds == DictKeys(P) \ DictKeys(C)
        IN  /\ Range(new_properties) = {DictGet(C, id) : id \in newIds}
            /\ Len(new_properties) = Cardinality(newIds)
            /\ Range(removed_properties) = {DictGet(P, id) : id \in removedIds}
            /\ Len(removed_properties) = Cardinality(removedIds)

\* A cycle that reports a new listing and a removed one, the removed record
\* carrying a timestamp no record of the current fetch has.
C1_Witness ==
    /\ Classified
    /\ new_properties # <<>>
    /\ removed_properties # <<>>
    /\ \E r \in Range(removed_properties) :
          \A i \in 1..Len(current_data) : current_data[i].v.last_updated # r.last_updated

\* C2: price_changes has exactly one entry for each id in both P and C whose
\* prices differ and no other; an entry carries old_price = P[id].price, the
\* price C[id].price and price_diff = price - old_price, which is not 0.
C2_PriceChangesExact ==
    Classified =>
        LET P == PersistedPrevious
            C == current_data
            changedIds == {id \in DictKeys(C) \cap DictKeys(P) :
                              DictGet(C, id).price # DictGet(P, id).price}
        IN  /\ {e.id : e \in Range(price_changes)} = changedIds
            /\ Len(price_changes) = Cardinality(changedIds)
            /\ \A e \in Range(price_changes) :
                  /\ e.old_price = DictGet(P, e.id).price
                  /\ e.price = DictGet(C, e.id).price
                  /\ e.price_diff = e.price - e.old_price
                  /\ e.price_diff # 0

\* A cycle that reports a price reduction.
C2_Witness ==
    /\ Classified
    /\ \E e \in Range(price_changes) : e.price_diff < 0

\* C3: after the classification the history of every id of C is its loaded
\* history with C[id] appended (created when absent), the history of any other
\* id is as loaded, no id is added or lost otherwise; and once save_history
\* has succeeded the history file holds exactly that.
C3_HistoryGrowsByOne ==
    /\ Classified =>
          LET H == PersistedHistoryAtStart
              C == current_data
          IN  /\ DictKeys(history) = DictKeys(H) \cup DictKeys(C)
              /\ \A id \in DictKeys(C) :
                    DictGet(history, id) = Append(HistoryOf(H, id), DictGet(C, id))
              /\ \A id \in DictKeys(H) \ DictKeys(C) :
                    DictGet(history, id) = DictGet(H, id)
    /\ pc = "upload" =>
          /\ load_history(historyFile, FALSE).ok
          /\ load_history(historyFile, FALSE).val = history

\* A saved cycle in which an id with an unchanged price got its second (or
\* later) record while a removed id kept its history.
C3_Witness ==
    /\ pc = "upload"
    /\ \E id \in DictKeys(current_data) :
          /\ DictHas(PersistedPrevious, id)
          /\ DictGet(PersistedPrevious, id).price = DictGet(current_data, id).price
          /\ Len(DictGet(history, id)) >= 2
    /\ \E id \in DictKeys(PersistedHistoryAtStart) \ DictKeys(current_data) :
          removed_properties # <<>> /\ DictGet(history, id) # <<>>

\* C4: a cycle whose fetch is empty never gets past the guard (no
\* classification, no report, no save); it ends having printed "No data
\* fetched", with no diff, no report written, and the snapshot, history and
\* alerts files exactly as it found them.
C4_EmptyGuardAborts ==
    /\ Classified => current_data # <<>>
    /\ printed = "No data fetched" =>
          /\ pc \in {"sleep", "start"}
          /\ Files = atStart
          /\ rendered = {}
          /\ new_properties = <<>> /\ price_changes = <<>> /\ removed_properties = <<>>

\* An empty fetch against a non-empty persisted snapshot and history.
C4_Witness ==
    /\ printed = "No data fetched"
    /\ pc = "sleep"
    /\ load_previous_data(dataFile, FALSE).val # <<>>
    /\ load_history(historyFile, FALSE).val # <<>>

IsPrefix(a, b) == Len(a) <= Len(b) /\ SubSeq(b, 1, Len(a)) = a

\* C5: a cycle whose fetch hit an error on some page is skipped: it does not
\* get past the guard, classifies nothing as removed and leaves the snapshot
\* and history files as it found them.
C5_FetchFailureSkipsCycle ==
    fetch_error # 0 =>
        /\ ~Classified
        /\ removed_properties = <<>>
        /\ dataFile = atStart.data
        /\ historyFile = atStart.history

\* The history a load of the file yields; a file json.load rejects yields none.
PersistedHistory(file) == load_history(file, FALSE).val

\* C6: in every step, for every id of the persisted history, the id is still
\* in the persisted history after the step and the sequence stored before is a
\* prefix of the sequence stored after.
C6_HistoryAppendOnly ==
    [][\A id \in DictKeys(PersistedHistory(historyFile)) :
          /\ DictHas(PersistedHistory(historyFile'), id)
          /\ IsPrefix(DictGet(PersistedHistory(historyFile), id),
                      DictGet(PersistedHistory(historyFile'), id))]_vars

\* C7: a cycle ended by a report that failed to render has still completed
\* its two saves: the history file has changed since the cycle started (a save
\* of a cycle with a non-empty fetch appends at least one record) and the two
\* files are what its save_history left.
C7_RenderFailureStillPersists ==
    printed = RenderError =>
        /\ historyFile # atStart.history
        /\ historyFile = lastGood.history
        /\ dataFile = lastGood.data

\* C8: the snapshot file and the history file are loadable at all times,
\* whatever happened to the writes.
C8_NoPartialFile ==
    /\ load_previous_data(dataFile, FALSE).ok
    /\ load_history(historyFile, FALSE).ok

\* C9: whenever a cycle has ended with an error and the loop is in its
\* cooldown, the error was printed and the snapshot and history files are
\* exactly what the last completed cycle saved.
C9_ErrorLeavesLastGoodState ==
    pc = "cooldown" =>
        /\ printed \in {JSONDecodeError, OSError, RenderError, WriteError, UploadError}
        /\ dataFile = lastGood.data
        /\ historyFile = lastGood.history

\* C10: an interrupt that arrives during the interval sleep or the cooldown
\* sleep ends the loop through its KeyboardInterrupt handler, with the
\* snapshot and history files as the last completed cycle saved them.
C10_SleepInterruptHonored ==
    [][(pc \in {"sleep", "cooldown"} /\ pc' \notin {pc, "start"}) =>
          /\ pc' = "stopped"
          /\ printed' = "Stopping scraper..."
          /\ dataFile' = lastGood.data
          /\ historyFile' = lastGood.history]_vars

\* C11: an id that a completed cycle classified as removed and that no fetch
\* has held since is, in the cycle whose fetch holds it again, absent from the
\* persisted snapshot the cycle loaded and therefore in the new list with its
\* current record and in no price_changes entry, whatever the history holds.
C11_RelistedIsNew ==
    Classified =>
        \A id \in removedEarlier \cap DictKeys(current_data) :
            /\ ~DictHas(PersistedPrevious, id)
            /\ DictGet(current_data, id) \in Range(new_properties)
            /\ \A e \in Range(price_changes) : e.id # id

\* A relisted id whose price differs from the last price its history holds,
\* in a cycle that went on to save.
C11_Witness ==
    /\ pc = "upload"
    /\ \E id \in removedEarlier \cap DictKeys(current_data) :
          /\ DictHas(PersistedHistoryAtStart, id)
          /\ LET h == DictGet(PersistedHistoryAtStart, id)
             IN  h[Len(h)].price # DictGet(current_data, id).price

\* C12: an id in both the persisted snapshot P and the fetch C with the same
\* price in both is in none of the three lists, whatever its other fields are,
\* and the last record of its history is C[id], the freshly fetched record.
C12_OnlyPriceCompared ==
    Classified =>
        \A id \in DictKeys(PersistedPrevious) \cap DictKeys(current_data) :
            DictGet(PersistedPrevious, id).price = DictGet(current_data, id).price =>
                /\ \A r \in Range(new_properties) : r.id # id
                /\ \A e \in Range(price_changes) : e.id # id
                /\ \A r \in Range(removed_properties) : r.id # id
                /\ LET h == DictGet(history, id)
                   IN  /\ h[Len(h)] = DictGet(current_data, id)
                       /\ Len(h) = Len(HistoryOf(PersistedHistoryAtStart, id)) + 1

\* An id whose price is as in the snapshot while its descriptive field and
\* its timestamp both differ, with the earlier record still in its history.
C12_Witness ==
    /\ Classified
    /\ \E id \in DictKeys(PersistedPrevious) \cap DictKeys(current_data) :
          /\ DictGet(PersistedPrevious, id).price = DictGet(current_data, id).price
          /\ DictGet(PersistedPrevious, id).name # DictGet(current_data, id).name
          /\ DictGet(PersistedPrevious, id).last_updated
                # DictGet(current_data, id).last_updated
          /\ DictGet(PersistedPrevious, id) \in Range(DictGet(history, id))

\* The ids of a list of property records, and whether none occurs twice.
IdsOf(list) == {r.id : r \in Range(list)}

NoDuplicateId(list) == \A i, j \in 1..Len(list) : list[i].id = list[j].id => i = j

\* The ids the classification loop passes over without reporting them.
UnchangedIds == DictKeys(current_data) \ (IdsOf(new_properties) \cup IdsOf(price_changes))

\* C13: in a classified cycle the id sets new, price_changed, unchanged and
\* removed are pairwise disjoint, the unchanged ids are exactly the ids in both
\* P and C with equal price, new, price_changed and unchanged together are
\* keys(C), removed is keys(P) \ keys(C), and no list holds an id twice.
C13_ClassesPartition ==
    Classified =>
        LET P == PersistedPrevious
            C == current_data
            new == IdsOf(new_properties)
            changed == IdsOf(price_changes)
            removed == IdsOf(removed_properties)
        IN  /\ new \cap changed = {}
            /\ new \cap removed = {}
            /\ changed \cap removed = {}
            /\ UnchangedIds \cap removed = {}
            /\ UnchangedIds = {id \in DictKeys(P) \cap DictKeys(C) :
                                  DictGet(P, id).price = DictGet(C, id).price}
            /\ new \cup changed \cup UnchangedIds = DictKeys(C)
            /\ new \subseteq DictKeys(C) /\ changed \subseteq DictKeys(C)
            /\ removed = DictKeys(P) \ DictKeys(C)
            /\ NoDuplicateId(new_properties)
            /\ NoDuplicateId(price_changes)
            /\ NoDuplicateId(removed_properties)

\* A cycle with a changed id, against a snapshot that also held a removed id.
C13_Witness ==
    /\ Classified
    /\ removed_properties # <<>>
    /\ price_changes # <<>>
    /\ IdsOf(removed_properties) \cup IdsOf(price_changes) = DictKeys(PersistedPrevious)

\* The cycle in flight found neither the snapshot file nor the history file.
FirstRun == ~atStart.data.exists /\ ~atStart.history.exists

\* C14: in a cycle that finds both files absent the absence is no error:
\* each load gives the empty mapping unless open() fails for another reason
\* (the loop then prints that OSError, never FileNotFoundError or
\* JSONDecodeError); with a non-empty fetch C its new list is the records of
\* C in fetch order, its removed and price_changes lists are empty, and the
\* history it builds and, once saved, the history file hold exactly one
\* record, C[id], for every id of C and nothing else.
C14_FirstRun ==
    FirstRun =>
        /\ load_previous_data(atStart.data, FALSE) = [ok |-> TRUE, val |-> <<>>, err |-> ""]
        /\ load_history(atStart.history, FALSE) = [ok |-> TRUE, val |-> <<>>, err |-> ""]
        /\ printed \notin {FileNotFoundError, JSONDecodeError}
        /\ pc \in {"load_history", "fetch", "classify"} => previous_data = <<>>
        /\ pc \in {"fetch", "classify"} => history = <<>>
        /\ Classified =>
              /\ previous_data = <<>>
              /\ new_properties = [i \in 1..Len(current_data) |-> current_data[i].v]
              /\ price_changes = <<>>
              /\ removed_properties = <<>>
              /\ history = [i \in 1..Len(current_data) |->
                              [k |-> current_data[i].k, v |-> <<current_data[i].v>>]]
        /\ pc = "upload" =>
              /\ load_history(historyFile, FALSE).ok
              /\ load_history(historyFile, FALSE).val =
                    [i \in 1..Len(current_data) |->
                        [k |-> current_data[i].k, v |-> <<current_data[i].v>>]]

\* A first run that fetched two listings and saved.
C14_Witness ==
    /\ FirstRun
    /\ pc = "upload"
    /\ Len(current_data) = Cardinality(HashIds)
    /\ \A id \in DictKeys(current_data) : Len(DictGet(load_history(historyFile, FALSE).val, id)) = 1

\* The cycle in flight has loaded the snapshot.
SnapshotLoaded == pc \in {"load_history", "fetch", "classify"} \/ Classified

\* C15: once save_data has returned, and so after every completed cycle, the
\* snapshot file loads to the fetched mapping C itself (one record per id of
\* C, equal to C[id], nothing for any other id); the file stays so until the
\* next cycle starts, and a cycle's previous snapshot is what the snapshot
\* file held when the cycle started.
C15_SnapshotReplacedWholesale ==
    /\ pc \in {"save_history", "upload"} =>
          /\ load_previous_data(dataFile, FALSE).ok
          /\ load_previous_data(dataFile, FALSE).val = current_data
          /\ \A i, j \in 1..Len(current_data) :
                current_data[i].k = current_data[j].k => i = j
    /\ pc = "upload" => lastGood.data = dataFile
    /\ (printed = "Found" /\ pc \in {"sleep", "start", "stopped"}) => dataFile = lastGood.data
    /\ SnapshotLoaded => previous_data = load_previous_data(atStart.data, FALSE).val

\* A cycle that found the snapshot as the last completed cycle left it, used
\* it as its previous snapshot, and has replaced it by a fetch without one of
\* its ids.
C15_Witness ==
    /\ pc = "save_history"
    /\ atStart.data.exists
    /\ atStart.data = lastGood.data
    /\ previous_data = load_previous_data(lastGood.data, FALSE).val
    /\ DictKeys(previous_data) \ DictKeys(load_previous_data(dataFile, FALSE).val) # {}
    /\ DictKeys(load_previous_data(dataFile, FALSE).val) = DictKeys(current_data)

\* No check cycle is in flight: run_continuous is between two cycles, has
\* stopped or has crashed.
NoCycleInFlight == pc \in {"start", "sleep", "cooldown", "stopped", "crashed"}

\* C16: whenever no cycle is in flight, every id of the persisted snapshot
\* has a non-empty persisted history whose last record is the snapshot's
\* record of the id.
C16_SnapshotAgreesWithHistory ==
    NoCycleInFlight =>
        \A id \in DictKeys(load_previous_data(dataFile, FALSE).val) :
            /\ DictHas(PersistedHistory(historyFile), id)
            /\ LET h == DictGet(PersistedHistory(historyFile), id)
               IN  /\ h # <<>>
                   /\ h[Len(h)] = DictGet(load_previous_data(dataFile, FALSE).val, id)

\* The check sections of the alerts report, by the position of their heading,
\* and the entries of a section: the parts up to the next heading.
SectionsOf(text) == {n \in 1..Len(text) : text[n] = Check}

EntriesOf(text, n) ==
    {text[j] : j \in {j \in (n + 1)..Len(text) :
                        \A k \in (n + 1)..j : text[k] # Check}}

\* The sections that list the id as a new property, those that list a price
\* change of it, and those that list the price change e.
SectionsListingNew(id) ==
    {n \in SectionsOf(alertsFile.text) :
        \E e \in EntriesOf(alertsFile.text, n) : e.t = "new" /\ e.id = id}

SectionsListingChangeOf(id) ==
    {n \in SectionsOf(alertsFile.text) :
        \E e \in EntriesOf(alertsFile.text, n) : e.t = "change" /\ e.id = id}

SectionsListingChange(e) ==
    {n \in SectionsOf(alertsFile.text) : e \in EntriesOf(alertsFile.text, n)}

\* C17: for an id that every fetch so far has held, at most one section of
\* the alerts report lists it as new, and two sections that list the same
\* price change of it (same old and new price) are separated by a section
\* that lists another price change of it.
C17_AlertedAtMostOnce ==
    \A id \in inEveryFetch :
        /\ Cardinality(SectionsListingNew(id)) <= 1
        /\ \A a, b \in SectionsListingChangeOf(id) :
              \A e \in EntriesOf(alertsFile.text, a) :
                  (a < b /\ e.t = "change" /\ e.id = id /\ b \in SectionsListingChange(e)) =>
                      \E c \in SectionsListingChangeOf(id) : a < c /\ c < b

====
